---- MODULE Spec2Model ----
(***************************************************************************)
(* docfold: the engine router (registry, selection, batch orchestration,   *)
(* comparison) of src/src/docfold/engines/router.py and the evaluation     *)
(* runner of src/src/docfold/evaluation/runner.py as state machines.       *)
(*                                                                         *)
(* A path is a sequence of one-character strings, an extension and an      *)
(* engine name are strings.  Optional values (Python's None) are encoded   *)
(* as the empty tuple, a present value x as <<x>>.                         *)
(***************************************************************************)
EXTENDS Integers, Sequences, FiniteSets, TLC

(***************************************************************************)
(* Bounds of the model.                                                    *)
(***************************************************************************)
MaxFiles == 2

MaxConcurrency == 2

MaxEngines == 2

(***************************************************************************)
(* Optional values.                                                        *)
(***************************************************************************)
None == <<>>

Some(x) == <<x>>

IsNone(o) == o = <<>>

Val(o) == o[1]

\* the element of a one-element set; {f(x) : x \in {e}} names the value of e
\* once, as a local variable of the code does
The(S) == CHOOSE x \in S : TRUE

(***************************************************************************)
(* Strings and paths.                                                      *)
(***************************************************************************)
\* sep.join(s)
RECURSIVE JoinWith(_, _)
JoinWith(sep, s) ==
  The({ IF t = <<>> THEN ""
        ELSE IF Len(t) = 1 THEN Head(t)
        ELSE Head(t) \o sep \o JoinWith(sep, Tail(t)) : t \in {s} })

\* "".join(s)
Join(s) == JoinWith("", s)

\* str.lower() on one character
UpperToLower ==
  ("A" :> "a") @@ ("B" :> "b") @@ ("C" :> "c") @@ ("D" :> "d") @@ ("E" :> "e") @@
  ("F" :> "f") @@ ("G" :> "g") @@ ("H" :> "h") @@ ("I" :> "i") @@ ("J" :> "j") @@
  ("K" :> "k") @@ ("L" :> "l") @@ ("M" :> "m") @@ ("N" :> "n") @@ ("O" :> "o") @@
  ("P" :> "p") @@ ("Q" :> "q") @@ ("R" :> "r") @@ ("S" :> "s") @@ ("T" :> "t") @@
  ("U" :> "u") @@ ("V" :> "v") @@ ("W" :> "w") @@ ("X" :> "x") @@ ("Y" :> "y") @@
  ("Z" :> "z")

LowerChar(c) == IF c \in DOMAIN UpperToLower THEN UpperToLower[c] ELSE c

Lower(s) == [i \in 1..Len(s) |-> LowerChar(s[i])]

\* the last index at or before k where s holds c, 0 when there is none
RECURSIVE RFindFrom(_, _, _)
RFindFrom(s, c, k) ==
  IF k = 0 THEN 0 ELSE IF s[k] = c THEN k ELSE RFindFrom(s, c, k - 1)

\* index of the last occurrence of c in s, 0 when there is none (str.rfind, 1-based)
RFind(s, c) == RFindFrom(s, c, Len(s))

\* PurePath.name: the final path component
PathName(p) == SubSeq(p, RFind(p, "/") + 1, Len(p))

\* PurePath.suffix: from the last dot of the name, unless the name starts
\* or ends with that dot
PathSuffix(p) ==
  The({ IF 1 < i /\ i < Len(name) THEN SubSeq(name, i, Len(name)) ELSE <<>> :
          name \in {PathName(p)}, i \in {RFind(PathName(p), ".")} })

\* str.lstrip(".")
RECURSIVE LStripDots(_)
LStripDots(s) ==
  The({ IF t # <<>> /\ Head(t) = "." THEN LStripDots(Tail(t)) ELSE t : t \in {s} })

\* ext = Path(file_path).suffix.lstrip(".").lower()
ExtOf(file_path) == Join(Lower(LStripDots(PathSuffix(file_path))))

(***************************************************************************)
(* The extension-aware priority map.                                       *)
(***************************************************************************)
IMAGE_PRIORITY ==
  << "surya", "paddleocr", "tesseract", "docling", "mistral_ocr",
     "google_docai", "textract", "azure_docint", "zerox", "marker" >>

OFFICE_PRIORITY ==
  << "docling", "marker", "unstructured", "llamaparse", "azure_docint" >>

EXTENSION_PRIORITY ==
  ("pdf" :> << "docling", "mineru", "unstructured", "marker",
               "llamaparse", "mistral_ocr", "google_docai", "azure_docint",
               "textract", "zerox", "nougat", "surya", "pymupdf",
               "paddleocr", "tesseract" >>) @@
  ("docx" :> OFFICE_PRIORITY) @@ ("doc" :> OFFICE_PRIORITY) @@
  ("pptx" :> OFFICE_PRIORITY) @@ ("ppt" :> OFFICE_PRIORITY) @@
  ("xlsx" :> OFFICE_PRIORITY) @@ ("xls" :> OFFICE_PRIORITY) @@
  ("odt" :> << "marker", "unstructured" >>) @@
  ("odp" :> << "marker", "unstructured" >>) @@
  ("ods" :> << "marker", "unstructured" >>) @@
  ("html" :> << "docling", "unstructured", "marker", "azure_docint" >>) @@
  ("htm" :> << "docling", "unstructured", "marker", "azure_docint" >>) @@
  ("xml" :> << "unstructured" >>) @@ ("md" :> << "unstructured" >>) @@
  ("rst" :> << "unstructured" >>) @@ ("csv" :> << "unstructured" >>) @@
  ("tsv" :> << "unstructured" >>) @@ ("txt" :> << "unstructured" >>) @@
  ("rtf" :> << "unstructured" >>) @@
  ("png" :> IMAGE_PRIORITY) @@ ("jpg" :> IMAGE_PRIORITY) @@
  ("jpeg" :> IMAGE_PRIORITY) @@ ("tiff" :> IMAGE_PRIORITY) @@
  ("tif" :> IMAGE_PRIORITY) @@ ("bmp" :> IMAGE_PRIORITY) @@
  ("webp" :> IMAGE_PRIORITY) @@
  ("gif" :> << "google_docai" >>) @@
  ("eml" :> << "unstructured" >>) @@ ("msg" :> << "unstructured" >>) @@
  ("epub" :> << "unstructured", "marker" >>)

DEFAULT_FALLBACK ==
  << "docling", "mineru", "unstructured", "marker",
     "llamaparse", "mistral_ocr", "google_docai", "azure_docint", "textract",
     "zerox", "nougat", "surya", "pymupdf", "paddleocr", "tesseract" >>

(***************************************************************************)
(* Engines.  A DocumentEngine is its name, what is_available() answers and *)
(* its supported_extensions.                                               *)
(***************************************************************************)
Engine(n, a, x) == [name |-> n, available |-> a, supported_extensions |-> x]

NoEngine == Engine("", FALSE, {})

NoExc == [type |-> "", msg |-> ""]

Exc(t, m) == [type |-> t, msg |-> m]

\* the outcome of a call: a returned engine, or a raised exception
Returned(e) == [raised |-> FALSE, engine |-> e, exc |-> NoExc]

Raised(x) == [raised |-> TRUE, engine |-> NoEngine, exc |-> x]

(***************************************************************************)
(* State.                                                                  *)
(***************************************************************************)
VARIABLES
  engines,          \* EngineRouter._engines, in insertion order
  fallback_order,   \* EngineRouter._fallback_order (optional list of names)
  allowed_engines,  \* EngineRouter._allowed_engines (optional set of names)
  env_default,      \* os.environ["ENGINE_DEFAULT"] (optional name)
  call,             \* the last completed synchronous call and its outcome
  file_paths,       \* process_batch: the input list
  engine_hint,      \* process_batch: engine_hint
  concurrency,      \* process_batch: concurrency
  on_progress,      \* process_batch: whether a progress callback was given
  fails,            \* per file task, whether the engine's process() raises
  semaphore,        \* the value of the asyncio.Semaphore
  batch,            \* the BatchResult under construction
  task,             \* per file task, where _process_one stands
  selected,         \* per file task, the engine select() returned
  events,           \* the calls made to on_progress, in order
  bpc,              \* where process_batch stands
  registered,       \* the engines handed to register(), in call order
  comparison,       \* the compare() call under way
  evaluation,       \* the EvaluationRunner.run() call under way
  metric,           \* the last call of a metric function and its value
  marker            \* the MarkerEngine._call_marker() call under way

routerVars == << engines, fallback_order, allowed_engines, env_default >>

batchVars ==
  << file_paths, engine_hint, concurrency, on_progress, fails, semaphore,
     batch, task, selected, events, bpc >>

adapterVars == << metric, marker >>

runVars == << comparison, evaluation, metric, marker >>

vars == << engines, fallback_order, allowed_engines, env_default, call,
           file_paths, engine_hint, concurrency, on_progress, fails,
           semaphore, batch, task, selected, events, bpc,
           registered, comparison, evaluation, metric, marker >>

(***************************************************************************)
(* Registry and selection.                                                 *)
(***************************************************************************)
Names(reg) == {reg[i].name : i \in 1..Len(reg)}

\* dict.get(name): the optional engine registered under name
Get(reg, name) ==
  IF name \in Names(reg)
  THEN Some(reg[CHOOSE i \in 1..Len(reg) : reg[i].name = name])
  ELSE None

\* register(), were the engine first registered under a name kept
Register_KeepsFirst(reg, engine) ==
  IF engine.name \in Names(reg) THEN reg ELSE Append(reg, engine)

\* register(): self._engines[engine.name] = engine; a dict keeps the place
\* of a key that is assigned again
Register(reg, engine) ==
  IF engine.name \in Names(reg)
  THEN [i \in 1..Len(reg) |->
          IF reg[i].name = engine.name THEN engine ELSE reg[i]]
  ELSE Append(reg, engine)

\* _get_priority
GetPriority(fo, ext) ==
  IF ~IsNone(fo) THEN Val(fo)
  ELSE IF ext \in DOMAIN EXTENSION_PRIORITY THEN EXTENSION_PRIORITY[ext]
  ELSE DEFAULT_FALLBACK

\* _is_candidate, were the extension checked for every file
IsCandidate_AlwaysChecksExtension(allowed, engine, ext) ==
  IF ~engine.available THEN FALSE
  ELSE IF ~IsNone(allowed) /\ Val(allowed) # {} /\ engine.name \notin Val(allowed)
    THEN FALSE
  ELSE IF ext \notin engine.supported_extensions THEN FALSE
  ELSE TRUE

\* _is_candidate
IsCandidate(allowed, engine, ext) ==
  IF ~engine.available THEN FALSE
  ELSE IF ~IsNone(allowed) /\ Val(allowed) # {} /\ engine.name \notin Val(allowed)
    THEN FALSE
  ELSE IF ext # "" /\ ext \notin engine.supported_extensions THEN FALSE
  ELSE TRUE

\* the loop over a priority list: the first name that is registered and whose
\* engine is a candidate
RECURSIVE FirstByNames(_, _, _, _)
FirstByNames(reg, allowed, names, ext) ==
  The({ IF ns = <<>> THEN None
        ELSE The({ IF ~IsNone(engine) /\ IsCandidate(allowed, Val(engine), ext)
                   THEN engine
                   ELSE FirstByNames(reg, allowed, Tail(ns), ext) :
                     engine \in {Get(reg, Head(ns))} }) :
          ns \in {names} })

\* the loop over the registry: the first engine, in registration order, that
\* is a candidate
RECURSIVE FirstRegistered(_, _, _)
FirstRegistered(reg, allowed, ext) ==
  The({ IF r = <<>> THEN None
        ELSE IF IsCandidate(allowed, Head(r), ext) THEN Some(Head(r))
        ELSE FirstRegistered(Tail(r), allowed, ext) : r \in {reg} })

UnknownEngineError(reg, hint) ==
  Exc("ValueError",
      "Unknown engine '" \o hint \o "'. Available: "
        \o JoinWith(", ", [i \in 1..Len(reg) |-> reg[i].name]))

EngineUnavailableError(hint) ==
  Exc("RuntimeError", "Engine '" \o hint \o "' is registered but not available.")

NoSuitableEngineError(reg, ext) ==
  Exc("ValueError",
      "No available engine supports '." \o ext \o "'. Registered: ["
        \o JoinWith(", ", [i \in 1..Len(reg) |-> "'" \o reg[i].name \o "'"])
        \o "]")

\* select(), step 2, were the environment default taken whenever registered
ByEnvDefault_Unchecked(reg, allowed, env, ext) ==
  IF IsNone(env) \/ Val(env) = "" THEN None ELSE Get(reg, Val(env))

\* select(), step 2: the environment default, when it is a candidate
ByEnvDefault(reg, allowed, env, ext) ==
  IF IsNone(env) \/ Val(env) = "" THEN None
  ELSE The({ IF ~IsNone(engine) /\ IsCandidate(allowed, Val(engine), ext)
             THEN engine ELSE None : engine \in {Get(reg, Val(env))} })

\* select() without a hint, were the registry walked before the priority list
SelectNoHint_RegistryFirst(reg, fo, allowed, env, ext) ==
  The({ IF ~IsNone(byEnv) THEN Returned(Val(byEnv))
        ELSE The({ IF ~IsNone(byRegistry) THEN Returned(Val(byRegistry))
                   ELSE Raised(NoSuitableEngineError(reg, ext)) :
                     byRegistry \in {FirstRegistered(reg, allowed, ext)} }) :
          byEnv \in {ByEnvDefault(reg, allowed, env, ext)} })

\* select() without a hint, were step 4 (the walk of the registry) left out
SelectNoHint_NoRegistryFallback(reg, fo, allowed, env, ext) ==
  The({ IF ~IsNone(byEnv) THEN Returned(Val(byEnv))
        ELSE The({ IF ~IsNone(byPriority) THEN Returned(Val(byPriority))
                   ELSE Raised(NoSuitableEngineError(reg, ext)) :
                     byPriority \in {FirstByNames(reg, allowed,
                                                  GetPriority(fo, ext), ext)} }) :
          byEnv \in {ByEnvDefault(reg, allowed, env, ext)} })

\* select(), steps 2 to 4 and the final raise
SelectNoHint(reg, fo, allowed, env, ext) ==
  The({ IF ~IsNone(byEnv) THEN Returned(Val(byEnv))
        ELSE The({ IF ~IsNone(byPriority) THEN Returned(Val(byPriority))
                   ELSE The({ IF ~IsNone(byRegistry) THEN Returned(Val(byRegistry))
                              ELSE Raised(NoSuitableEngineError(reg, ext)) :
                                byRegistry \in {FirstRegistered(reg, allowed, ext)} }) :
                     byPriority \in {FirstByNames(reg, allowed,
                                                  GetPriority(fo, ext), ext)} }) :
          byEnv \in {ByEnvDefault(reg, allowed, env, ext)} })

\* select(), step 1, were an unusable hint passed over for the first available
\* engine of the registry
SelectHint_FallsBack(reg, hint, ext) ==
  The({ IF ~IsNone(engine) /\ Val(engine).available THEN Returned(Val(engine))
        ELSE The({ IF ~IsNone(other) THEN Returned(Val(other))
                   ELSE Raised(UnknownEngineError(reg, hint)) :
                     other \in {FirstRegistered(reg, None, ext)} }) :
          engine \in {Get(reg, hint)} })

\* select(), step 1, were an unlisted extension a rejection
SelectHint_RejectsMismatch(reg, hint, ext) ==
  The({ IF IsNone(engine) THEN Raised(UnknownEngineError(reg, hint))
        ELSE IF ~Val(engine).available THEN Raised(EngineUnavailableError(hint))
        ELSE IF ext # "" /\ ext \notin Val(engine).supported_extensions
        THEN Raised(NoSuitableEngineError(reg, ext))
        ELSE Returned(Val(engine)) : engine \in {Get(reg, hint)} })

\* select(), step 1: an extension the engine does not list is logged, no more
SelectHint(reg, hint, ext) ==
  The({ IF IsNone(engine) THEN Raised(UnknownEngineError(reg, hint))
        ELSE IF ~Val(engine).available THEN Raised(EngineUnavailableError(hint))
        ELSE Returned(Val(engine)) : engine \in {Get(reg, hint)} })

\* EngineRouter.select
Select(reg, fo, allowed, env, file_path, hint) ==
  The({ IF ~IsNone(hint) /\ Val(hint) # ""
        THEN SelectHint(reg, Val(hint), ext)
        ELSE SelectNoHint(reg, fo, allowed, env, ext) :
          ext \in {ExtOf(file_path)} })

(***************************************************************************)
(* The inputs the model draws from.                                        *)
(***************************************************************************)
APdf == << "a", ".", "p", "d", "f" >>

ScanPNG == << "s", "c", "a", "n", ".", "P", "N", "G" >>

Notes == << "n", "o", "t", "e", "s" >>

DirReadme == << "v", "1", ".", "2", "/", "R", "E", "A", "D", "M", "E" >>

DataXyz == << "d", "a", "t", "a", ".", "x", "y", "z" >>

ReportDocx == << "r", ".", "d", "o", "c", "x" >>

SelectPaths == {APdf, ScanPNG, Notes, DirReadme, DataXyz}

EngineNames == {"docling", "tesseract", "custom"}

Extensions(n) ==
  IF n = "docling" THEN {"pdf", "docx"}
  ELSE IF n = "tesseract" THEN {"png", "pdf"}
  ELSE {"pdf", "xyz"}

EnginePool == {Engine(n, a, Extensions(n)) : n \in EngineNames, a \in BOOLEAN}

\* the registries of at most MaxEngines engines: one engine per name
Registries ==
  {r \in UNION {[1..n -> EnginePool] : n \in 0..MaxEngines} :
     \A i, j \in 1..Len(r) : r[i].name = r[j].name => i = j}

FallbackOrders == {None, Some(<<>>), Some(<< "custom", "tesseract" >>)}

AllowLists ==
  {None, Some({}), Some({"tesseract"}), Some({"custom", "docling"})}

EnvDefaults == {None, Some("tesseract"), Some("ghost")}

Hints == {None, Some(""), Some("docling"), Some("tesseract"), Some("ghost")}

(***************************************************************************)
(* process_batch.                                                          *)
(***************************************************************************)
NewBatch(n) ==
  [results |-> <<>>, errors |-> <<>>, total |-> n, succeeded |-> 0, failed |-> 0]

\* d[k] = v on a dict
Put(d, k, v) == [x \in DOMAIN d \cup {k} |-> IF x = k THEN v ELSE d[x]]

\* the EngineResult an engine returns for a file
Result(engine, fp) == [content |-> fp, engine_name |-> engine.name]

NoResult == [content |-> <<>>, engine_name |-> ""]

\* what the engine's process() raises for a file
ProcessError(fp) == Exc("RuntimeError", "Simulated failure on " \o Join(fp))

\* what a raising progress callback raises
CallbackError == Exc("CallbackError", "on_progress raised")

\* one call of on_progress, were current the 0-based index of the file
Event_ZeroBased(b, i, fp, ename, status, result, error, cbraises) ==
  [current |-> i - 1, total |-> b.total, file_path |-> fp,
   engine_name |-> ename, status |-> status, result |-> result,
   error |-> error, raised |-> cbraises,
   counted |-> b.succeeded + b.failed]

\* one call of on_progress, made when the BatchResult is b; cbraises tells
\* whether the callback raised, and counted is what succeeded + failed of
\* the BatchResult is while the callback runs
Event(b, i, fp, ename, status, result, error, cbraises) ==
  [current |-> i, total |-> b.total, file_path |-> fp,
   engine_name |-> ename, status |-> status, result |-> result,
   error |-> error, raised |-> cbraises,
   counted |-> b.succeeded + b.failed]

\* the except block, were the exception's type recorded instead of str(exc)
ExceptBlock_RecordsType(b, ev, i, exc, ename, rF) ==
  LET fp == file_paths[i]
      b1 == [b EXCEPT !.errors = Put(@, fp, exc.type), !.failed = @ + 1]
  IN  [batch  |-> b1,
       events |-> IF on_progress
                  THEN Append(ev, Event(b1, i, fp, ename, "failed", NoResult,
                                        exc, rF))
                  ELSE ev,
       task   |-> IF on_progress /\ rF THEN "raised" ELSE "done"]

\* the except block, were the failure recorded and not counted
ExceptBlock_NoCount(b, ev, i, exc, ename, rF) ==
  LET fp == file_paths[i]
      b1 == [b EXCEPT !.errors = Put(@, fp, exc.msg)]
  IN  [batch  |-> b1,
       events |-> IF on_progress
                  THEN Append(ev, Event(b1, i, fp, ename, "failed", NoResult,
                                        exc, rF))
                  ELSE ev,
       task   |-> IF on_progress /\ rF THEN "raised" ELSE "done"]

\* the except block of _process_one and what follows it: the error is
\* recorded and counted, the "failed" event is delivered; an exception of
\* that delivery leaves _process_one
ExceptBlock(b, ev, i, exc, ename, rF) ==
  LET fp == file_paths[i]
      b1 == [b EXCEPT !.errors = Put(@, fp, exc.msg), !.failed = @ + 1]
  IN  [batch  |-> b1,
       events |-> IF on_progress
                  THEN Append(ev, Event(b1, i, fp, ename, "failed", NoResult,
                                        exc, rF))
                  ELSE ev,
       task   |-> IF on_progress /\ rF THEN "raised" ELSE "done"]

\* the start of _process_one, were the "processing" event left out
StartBlock_NoProcessingEvent(i, sel, rP, rF) ==
  IF sel.raised
  THEN ExceptBlock(batch, events, i, sel.exc, "unknown", rF)
  ELSE [batch |-> batch, events |-> events, task |-> "processing"]

\* _process_one from the semaphore to the await of engine.process; sel is
\* what select() returned or raised
StartBlock(i, sel, rP, rF) ==
  LET fp  == file_paths[i]
      ev1 == IF on_progress
             THEN Append(events, Event(batch, i, fp, sel.engine.name,
                                       "processing", NoResult, NoExc, rP))
             ELSE events
  IN  IF sel.raised
      THEN ExceptBlock(batch, events, i, sel.exc, "unknown", rF)
      ELSE IF on_progress /\ rP
      THEN ExceptBlock(batch, ev1, i, CallbackError, sel.engine.name, rF)
      ELSE [batch |-> batch, events |-> ev1, task |-> "processing"]

\* the end of _process_one, were succeeded incremented after the
\* "completed" event instead of before it
FinishBlock_CountsAfterEvent(i, rC, rF) ==
  LET fp     == file_paths[i]
      ename  == selected[i].name
      result == Result(selected[i], fp)
      b1     == [batch EXCEPT !.results = Put(@, fp, result), !.succeeded = @ + 1]
      ev1    == IF on_progress
                THEN Append(events, Event(batch, i, fp, ename, "completed",
                                          result, NoExc, rC))
                ELSE events
  IN  IF fails[i]
      THEN ExceptBlock(batch, events, i, ProcessError(fp), ename, rF)
      ELSE IF on_progress /\ rC
      THEN ExceptBlock(b1, ev1, i, CallbackError, ename, rF)
      ELSE [batch |-> b1, events |-> ev1, task |-> "done"]

\* _process_one from the return of engine.process to its end
FinishBlock(i, rC, rF) ==
  LET fp     == file_paths[i]
      ename  == selected[i].name
      result == Result(selected[i], fp)
      b1     == [batch EXCEPT !.results = Put(@, fp, result), !.succeeded = @ + 1]
      ev1    == IF on_progress
                THEN Append(events, Event(b1, i, fp, ename, "completed",
                                          result, NoExc, rC))
                ELSE events
  IN  IF fails[i]
      THEN ExceptBlock(batch, events, i, ProcessError(fp), ename, rF)
      ELSE IF on_progress /\ rC
      THEN ExceptBlock(b1, ev1, i, CallbackError, ename, rF)
      ELSE [batch |-> b1, events |-> ev1, task |-> "done"]

BatchPaths == {APdf, ScanPNG}

BatchHints == {None, Some("pymupdf"), Some("tesseract"), Some("ghost")}

BatchEngines ==
  << Engine("docling", TRUE, {"pdf", "docx"}),
     Engine("pymupdf", TRUE, {"pdf"}),
     Engine("tesseract", FALSE, {"png", "pdf"}) >>

Idle ==
  /\ file_paths = <<>> /\ engine_hint = None /\ concurrency = 0
  /\ on_progress = FALSE /\ fails = <<>> /\ semaphore = 0
  /\ batch = NewBatch(0) /\ task = <<>> /\ selected = <<>>
  /\ events = <<>> /\ bpc = "idle"

\* no compare() call was made
NoComparison ==
  [pc |-> "idle", file_path |-> <<>>, names |-> None, targets |-> <<>>,
   k |-> 0, results |-> <<>>, called |-> <<>>, outcomes |-> <<>>]

\* no run() call was made
NoEvaluation ==
  [pc |-> "idle", engines |-> None, categories |-> None, gt_files |-> <<>>,
   available_engines |-> <<>>, n |-> 0, engine |-> NoEngine,
   outcomes |-> <<>>, scores |-> <<>>, engine_summaries |-> <<>>]

\* no metric function was called
NoMetric ==
  [op |-> "none", predicted |-> <<>>, reference |-> <<>>, value |-> << 0, 1 >>]

\* _call_marker was not called
NoMarker == [pc |-> "idle", polls |-> 0, status |-> "", exc |-> ""]

NoCall == [op |-> "none", file_path |-> <<>>, hint |-> None, result |-> Raised(NoExc)]

\* the router of the batch runs, constructed and not yet called
Init ==
  /\ engines = BatchEngines
  /\ fallback_order = None /\ allowed_engines = None /\ env_default = None
  /\ call = NoCall
  /\ Idle
  /\ registered = BatchEngines
  /\ comparison = NoComparison /\ evaluation = NoEvaluation
  /\ metric = NoMetric /\ marker = NoMarker

\* process_batch up to the gather: the semaphore and the BatchResult are
\* made, one _process_one coroutine per input path is handed to gather
ProcessBatch(fps, hint, conc, cb, fl) ==
  /\ bpc = "idle"
  /\ file_paths' = fps /\ engine_hint' = hint /\ concurrency' = conc
  /\ on_progress' = cb /\ fails' = fl
  /\ events' = <<>>
  /\ bpc' = "gathering"
  /\ semaphore' = conc
  /\ batch' = NewBatch(Len(fps))
  /\ task' = [i \in 1..Len(fps) |-> "pending"]
  /\ selected' = [i \in 1..Len(fps) |-> NoEngine]
  /\ UNCHANGED << routerVars, registered, runVars, call >>

\* the start of a file task, were the semaphore not taken
Start_NoSemaphore(i, rP, rF) ==
  /\ i \in DOMAIN task /\ task[i] = "pending"
  /\ \A j \in 1..(i - 1) : task[j] # "pending"
  /\ \E sel \in {Select(engines, fallback_order, allowed_engines, env_default,
                         file_paths[i], engine_hint)} :
       \E r \in {StartBlock(i, sel, rP, rF)} :
         /\ batch' = r.batch /\ events' = r.events
         /\ task' = [task EXCEPT ![i] = r.task]
         /\ selected' = [selected EXCEPT ![i] = sel.engine]
         /\ semaphore' = IF r.task = "processing" THEN semaphore - 1 ELSE semaphore
  /\ UNCHANGED << routerVars, registered, runVars, call, file_paths, engine_hint, concurrency,
                  on_progress, fails, bpc >>

\* a file task enters the semaphore (waiters are served first come, first
\* served), selects its engine, reports "processing" and calls the engine
Start(i, rP, rF) ==
  /\ i \in DOMAIN task /\ task[i] = "pending"
  /\ semaphore > 0
  /\ \A j \in 1..(i - 1) : task[j] # "pending"
  /\ \E sel \in {Select(engines, fallback_order, allowed_engines, env_default,
                         file_paths[i], engine_hint)} :
       \E r \in {StartBlock(i, sel, rP, rF)} :
         /\ batch' = r.batch /\ events' = r.events
         /\ task' = [task EXCEPT ![i] = r.task]
         /\ selected' = [selected EXCEPT ![i] = sel.engine]
         /\ semaphore' = IF r.task = "processing" THEN semaphore - 1 ELSE semaphore
  /\ UNCHANGED << routerVars, registered, runVars, call, file_paths, engine_hint, concurrency,
                  on_progress, fails, bpc >>

\* the engine's process() returns or raises; the task records the outcome,
\* reports it and leaves the semaphore
Finish(i, rC, rF) ==
  /\ i \in DOMAIN task /\ task[i] = "processing"
  /\ \E r \in {FinishBlock(i, rC, rF)} :
       /\ batch' = r.batch /\ events' = r.events
       /\ task' = [task EXCEPT ![i] = r.task]
  /\ semaphore' = semaphore + 1
  /\ UNCHANGED << routerVars, registered, runVars, call, file_paths, engine_hint, concurrency,
                  on_progress, fails, selected, bpc >>

\* gather: every task has returned
Return ==
  /\ bpc = "gathering"
  /\ \A i \in DOMAIN task : task[i] = "done"
  /\ bpc' = "returned"
  /\ UNCHANGED << routerVars, registered, runVars, call, file_paths, engine_hint, concurrency,
                  on_progress, fails, semaphore, batch, task, selected, events >>

\* gather: the exception of a task is passed on to the caller; the other
\* tasks are not cancelled
Propagate ==
  /\ bpc = "gathering"
  /\ \E i \in DOMAIN task : task[i] = "raised"
  /\ bpc' = "raised"
  /\ UNCHANGED << routerVars, registered, runVars, call, file_paths, engine_hint, concurrency,
                  on_progress, fails, semaphore, batch, task, selected, events >>

FileLists == UNION {[1..n -> BatchPaths] : n \in 0..MaxFiles}

\* a caller calls process_batch on the idle router
CallProcessBatch ==
  /\ bpc = "idle"
  /\ \E fps \in FileLists, hint \in BatchHints, conc \in 0..MaxConcurrency,
        cb \in BOOLEAN :
       \E fl \in [1..Len(fps) -> BOOLEAN] : ProcessBatch(fps, hint, conc, cb, fl)

\* a callback that was not given cannot raise
TaskStart ==
  \E i \in DOMAIN task, rP, rF \in BOOLEAN :
    /\ (rP \/ rF) => on_progress
    /\ Start(i, rP, rF)

TaskFinish ==
  \E i \in DOMAIN task, rC, rF \in BOOLEAN :
    /\ (rC \/ rF) => on_progress
    /\ Finish(i, rC, rF)

Next == CallProcessBatch \/ TaskStart \/ TaskFinish \/ Return \/ Propagate

Spec == Init /\ [][Next]_vars

\* the event loop runs every task that can run, and every engine call ends
LiveSpec ==
  /\ Spec
  /\ WF_vars(TaskStart) /\ WF_vars(TaskFinish)
  /\ WF_vars(Return) /\ WF_vars(Propagate)

(***************************************************************************)
(* Selection on its own: any router of the pool, any call of select().     *)
(***************************************************************************)
SelectInit ==
  /\ engines \in Registries
  /\ fallback_order \in FallbackOrders
  /\ allowed_engines \in AllowLists
  /\ env_default \in EnvDefaults
  /\ call = NoCall
  /\ Idle
  /\ registered = engines
  /\ comparison = NoComparison /\ evaluation = NoEvaluation
  /\ metric = NoMetric /\ marker = NoMarker

\* select(), were the engine it chose remembered as the router's order
CallSelect_CachesChoice(fp, hint) ==
  \E sel \in {Select(engines, fallback_order, allowed_engines, env_default,
                      fp, hint)} :
    /\ call' = [op |-> "select", file_path |-> fp, hint |-> hint,
                result |-> sel]
    /\ fallback_order' = IF sel.raised THEN fallback_order
                         ELSE Some(<< sel.engine.name >>)
    /\ UNCHANGED << engines, allowed_engines, env_default, batchVars,
                    registered, runVars >>

\* a caller calls select(file_path, engine_hint)
CallSelect(fp, hint) ==
  /\ call' = [op |-> "select", file_path |-> fp, hint |-> hint,
              result |-> Select(engines, fallback_order, allowed_engines,
                                env_default, fp, hint)]
  /\ UNCHANGED << routerVars, batchVars, registered, runVars >>

SelectNext == \E fp \in SelectPaths, hint \in Hints : CallSelect(fp, hint)

SelectSpec == SelectInit /\ [][SelectNext]_vars

(***************************************************************************)
(* compare(): one file through several engines, one after the other.       *)
(***************************************************************************)
\* the targets of compare(), were a named engine run whether available or not
CompareTargets_NoAvailabilityCheck(reg, names, ext) ==
  IF ~IsNone(names) /\ Val(names) # <<>>
  THEN LET IsTarget(n) == ~IsNone(Get(reg, n))
           found == SelectSeq(Val(names), IsTarget)
       IN  [i \in 1..Len(found) |-> Val(Get(reg, found[i]))]
  ELSE LET IsTarget(e) ==
             e.available /\ (ext = "" \/ ext \in e.supported_extensions)
       IN  SelectSeq(reg, IsTarget)

\* the targets of compare(): the named engines that are registered and
\* available, in the order named; without names (None or an empty list) the
\* registered engines that are available and list the extension
CompareTargets(reg, names, ext) ==
  IF ~IsNone(names) /\ Val(names) # <<>>
  THEN LET IsTarget(n) == ~IsNone(Get(reg, n)) /\ Val(Get(reg, n)).available
           found == SelectSeq(Val(names), IsTarget)
       IN  [i \in 1..Len(found) |-> Val(Get(reg, found[i]))]
  ELSE LET IsTarget(e) ==
             e.available /\ (ext = "" \/ ext \in e.supported_extensions)
       IN  SelectSeq(reg, IsTarget)

\* compare(), were process() of every target called before any is awaited
StartCompare_AllAtOnce(reg, fp, names) ==
  LET targets == CompareTargets(reg, names, ExtOf(fp))
  IN  [pc |-> IF targets = <<>> THEN "returned" ELSE "awaiting",
       file_path |-> fp, names |-> names, targets |-> targets,
       k |-> IF targets = <<>> THEN 0 ELSE 1,
       results |-> <<>>,
       called |-> [i \in 1..Len(targets) |-> targets[i].name],
       outcomes |-> <<>>]

\* compare() from its call to the first await: the targets are computed and
\* process() of the first one is called; without targets it returns {}
StartCompare(reg, fp, names) ==
  LET targets == CompareTargets(reg, names, ExtOf(fp))
  IN  [pc |-> IF targets = <<>> THEN "returned" ELSE "awaiting",
       file_path |-> fp, names |-> names, targets |-> targets,
       k |-> IF targets = <<>> THEN 0 ELSE 1,
       results |-> <<>>,
       called |-> IF targets = <<>> THEN <<>> ELSE << targets[1].name >>,
       outcomes |-> <<>>]

\* the loop of compare(), were an exception of process() not caught
AfterProcess_RaiseAborts(c, ok) ==
  LET engine == c.targets[c.k]
      res    == Put(c.results, engine.name, Result(engine, c.file_path))
  IN  IF ~ok
      THEN [c EXCEPT !.outcomes = Append(@, ok), !.k = 0, !.pc = "raised"]
      ELSE IF c.k < Len(c.targets)
      THEN [c EXCEPT !.results = res, !.outcomes = Append(@, ok), !.k = @ + 1,
                     !.called = Append(@, c.targets[c.k + 1].name)]
      ELSE [c EXCEPT !.results = res, !.outcomes = Append(@, ok), !.k = 0,
                     !.pc = "returned"]

\* the loop of compare() from the end of one process() call to the next
\* await: a result is stored under the engine's name, an exception is logged;
\* process() of the next target is called, after the last one results is
\* returned
AfterProcess(c, ok) ==
  LET engine == c.targets[c.k]
      res    == IF ok
                THEN Put(c.results, engine.name, Result(engine, c.file_path))
                ELSE c.results
  IN  IF c.k < Len(c.targets)
      THEN [c EXCEPT !.results = res, !.outcomes = Append(@, ok), !.k = @ + 1,
                     !.called = Append(@, c.targets[c.k + 1].name)]
      ELSE [c EXCEPT !.results = res, !.outcomes = Append(@, ok), !.k = 0,
                     !.pc = "returned"]

ComparePaths == {APdf, ScanPNG, Notes, ReportDocx}

CompareNames ==
  {None, Some(<<>>), Some(<< "docling", "pymupdf" >>),
   Some(<< "tesseract", "ghost", "pymupdf" >>), Some(<< "pymupdf", "pymupdf" >>),
   Some(<< "pymupdf", "tesseract", "docling" >>)}

\* a caller calls compare(file_path, engines=names)
CallCompare(fp, names) ==
  /\ comparison.pc \in {"idle", "returned"}
  /\ comparison' = StartCompare(engines, fp, names)
  /\ UNCHANGED << routerVars, batchVars, call, registered, evaluation,
                  adapterVars >>

\* the process() call of the engine under way returns (ok) or raises
CompareEngineEnds(ok) ==
  /\ comparison.pc = "awaiting"
  /\ comparison' = AfterProcess(comparison, ok)
  /\ UNCHANGED << routerVars, batchVars, call, registered, evaluation,
                  adapterVars >>

CompareNext ==
  \/ \E fp \in ComparePaths, names \in CompareNames : CallCompare(fp, names)
  \/ \E ok \in BOOLEAN : CompareEngineEnds(ok)

CompareSpec == Init /\ [][CompareNext]_vars

(***************************************************************************)
(* Evaluation: metrics on texts, texts being sequences of characters, and  *)
(* scores being fractions <<numerator, denominator>> in lowest terms.      *)
(***************************************************************************)
RECURSIVE GCD(_, _)
GCD(a, b) == IF b = 0 THEN a ELSE GCD(b, a % b)

\* the fraction n/d (n >= 0, d > 0) in lowest terms
Rat(n, d) == The({ << n \div g, d \div g >> : g \in {GCD(n, d)} })

RatAdd(x, y) == Rat(x[1] * y[2] + y[1] * x[2], x[2] * y[2])

\* sum(xs) of a list of fractions
RECURSIVE RatSum(_)
RatSum(xs) == IF xs = <<>> THEN Rat(0, 1) ELSE RatAdd(Head(xs), RatSum(Tail(xs)))

\* the sentinel -1 of an average over no value
NoAverage == << -1, 1 >>

\* sum(xs) / len(xs) if xs else -1
Average(xs) ==
  IF xs = <<>> THEN NoAverage
  ELSE The({ Rat(t[1], t[2] * Len(xs)) : t \in {RatSum(xs)} })

Min3(x, y, z) == IF x <= y /\ x <= z THEN x ELSE IF y <= z THEN y ELSE z

\* str.split(): the maximal runs of non-blank characters from position i on,
\* cur being the run under way
RECURSIVE SplitFrom(_, _, _)
SplitFrom(s, i, cur) ==
  IF i > Len(s) THEN (IF cur = <<>> THEN <<>> ELSE << cur >>)
  ELSE IF s[i] = " "
  THEN (IF cur = <<>> THEN SplitFrom(s, i + 1, <<>>)
        ELSE << cur >> \o SplitFrom(s, i + 1, <<>>))
  ELSE SplitFrom(s, i + 1, Append(cur, s[i]))

Split(s) == SplitFrom(s, 1, <<>>)

\* dp[j] of row i of the edit-distance table, dp being row i - 1
RECURSIVE DpCell(_, _, _, _, _)
DpCell(dp, i, ai, b, j) ==
  IF j = 0 THEN i
  ELSE Min3(dp[j + 1] + 1,
            DpCell(dp, i, ai, b, j - 1) + 1,
            dp[j] + (IF ai = b[j] THEN 0 ELSE 1))

\* row i of the edit-distance table of a and b as the tuple dp[0..m]
RECURSIVE DpRow(_, _, _)
DpRow(a, b, i) ==
  IF i = 0 THEN [j \in 1..(Len(b) + 1) |-> j - 1]
  ELSE The({ [j \in 1..(Len(b) + 1) |-> DpCell(dp, i, a[i], b, j - 1)] :
               dp \in {DpRow(a, b, i - 1)} })

\* _levenshtein_ratio on the two lists of items
LevenshteinRatio(a, b) ==
  IF b = <<>> THEN (IF a = <<>> THEN Rat(0, 1) ELSE Rat(Len(a), 1))
  ELSE Rat(DpRow(a, b, Len(a))[Len(b) + 1], Len(b))

\* compute_cer, were the distance divided by the length of the prediction
ComputeCer_DividesByPredicted(predicted, reference) ==
  IF reference = <<>> \/ predicted = <<>>
  THEN (IF predicted = <<>> THEN Rat(0, 1) ELSE Rat(Len(predicted), 1))
  ELSE Rat(DpRow(predicted, reference, Len(predicted))[Len(reference) + 1],
           Len(predicted))

\* compute_cer (the pure-Python path)
ComputeCer(predicted, reference) ==
  IF reference = <<>>
  THEN (IF predicted = <<>> THEN Rat(0, 1) ELSE Rat(Len(predicted), 1))
  ELSE LevenshteinRatio(predicted, reference)

\* compute_wer (the pure-Python path)
ComputeWer(predicted, reference) ==
  IF Split(reference) = <<>>
  THEN (IF Split(predicted) = <<>> THEN Rat(0, 1)
        ELSE Rat(Len(Split(predicted)), 1))
  ELSE LevenshteinRatio(Split(predicted), Split(reference))

\* the 0-based index of the last occurrence of e in order (the dict
\* {e: i for i, e in enumerate(order)} keeps the last index of a key)
PredIndex(order, e) == RFind(order, e) - 1

\* the number of pairs i < j of ranks that are in the same order as i and j
Concordant(pred_ranks) ==
  Cardinality({ij \in (1..Len(pred_ranks)) \X (1..Len(pred_ranks)) :
                 /\ ij[1] < ij[2]
                 /\ (pred_ranks[ij[1]] - pred_ranks[ij[2]])
                      * (ij[1] - ij[2]) > 0})

\* compute_reading_order_score (the pure-Python path)
ComputeReadingOrderScore(predicted_order, reference_order) ==
  LET InPredicted(e) == \E i \in 1..Len(predicted_order) : predicted_order[i] = e
      common     == SelectSeq(reference_order, InPredicted)
      n          == Len(common)
      pred_ranks == [i \in 1..n |-> PredIndex(predicted_order, common[i])]
      total      == (n * (n - 1)) \div 2
  IN  IF n < 2
      THEN (IF n = Len(reference_order) THEN Rat(1, 1) ELSE Rat(0, 1))
      ELSE Rat(2 * Concordant(pred_ranks) - total, total)

(***************************************************************************)
(* The metric functions on their own: any call on texts and orderings of   *)
(* bounded length.                                                         *)
(***************************************************************************)
MaxText == 3

MaxOrder == 3

\* the texts of at most MaxText characters
Texts == UNION {[1..n -> {"a", "b"}] : n \in 0..MaxText}

\* the lists of at most MaxOrder element identifiers
Orders == UNION {[1..n -> {"a", "b", "c"}] : n \in 0..MaxOrder}

\* before the call: the two arguments a caller is about to pass
MetricInit ==
  /\ engines = <<>>
  /\ fallback_order = None /\ allowed_engines = None /\ env_default = None
  /\ call = NoCall
  /\ Idle
  /\ registered = <<>>
  /\ comparison = NoComparison /\ evaluation = NoEvaluation
  /\ \E predicted \in Texts \cup Orders, reference \in Texts \cup Orders :
       metric = [NoMetric EXCEPT !.predicted = predicted,
                                 !.reference = reference]
  /\ marker = NoMarker

\* the caller calls compute_cer(predicted, reference) on two texts
CallComputeCer ==
  /\ metric.op = "none"
  /\ metric.predicted \in Texts /\ metric.reference \in Texts
  /\ metric' = [metric EXCEPT
                  !.op = "compute_cer",
                  !.value = ComputeCer(metric.predicted, metric.reference)]
  /\ UNCHANGED << routerVars, batchVars, call, registered, comparison,
                  evaluation, marker >>

\* the caller calls compute_reading_order_score(predicted_order,
\* reference_order) on two lists of element identifiers
CallComputeReadingOrderScore ==
  /\ metric.op = "none"
  /\ metric.predicted \in Orders /\ metric.reference \in Orders
  /\ metric' = [metric EXCEPT
                  !.op = "compute_reading_order_score",
                  !.value = ComputeReadingOrderScore(metric.predicted,
                                                     metric.reference)]
  /\ UNCHANGED << routerVars, batchVars, call, registered, comparison,
                  evaluation, marker >>

MetricNext == CallComputeCer \/ CallComputeReadingOrderScore

MetricSpec == MetricInit /\ [][MetricNext]_vars

(***************************************************************************)
(* The router under mixed use: select, process, process_batch and compare  *)
(* calls of one router, interleaved.                                       *)
(***************************************************************************)
\* process() up to its await: select() answers, and either its exception
\* leaves process() or process() of the chosen engine is awaited
CallProcess(fp, hint) ==
  \E sel \in {Select(engines, fallback_order, allowed_engines, env_default,
                      fp, hint)} :
    /\ call' = [op |-> IF sel.raised THEN "process" ELSE "processing",
                file_path |-> fp, hint |-> hint, result |-> sel]
    /\ UNCHANGED << routerVars, batchVars, registered, runVars >>

\* the engine call process() awaits returns (ok) or raises, and so does
\* process()
ProcessEngineEnds(ok) ==
  /\ call.op = "processing"
  /\ call' = [call EXCEPT
                !.op = "process",
                !.result = IF ok THEN @ ELSE Raised(ProcessError(call.file_path))]
  /\ UNCHANGED << routerVars, batchVars, registered, runVars >>

RouterPolicies ==
  {<< None, None >>, << Some(<< "pymupdf", "docling" >>), Some({"pymupdf"}) >>}

\* the router of the batch runs, with or without a policy of its own
RouterInit ==
  /\ engines = BatchEngines
  /\ \E policy \in RouterPolicies :
       fallback_order = policy[1] /\ allowed_engines = policy[2]
  /\ env_default = None
  /\ call = NoCall
  /\ Idle
  /\ registered = BatchEngines
  /\ comparison = NoComparison /\ evaluation = NoEvaluation
  /\ metric = NoMetric /\ marker = NoMarker

RouterPaths == {APdf, ScanPNG}

RouterHints == {None, Some("ghost")}

RouterSelects ==
  /\ call.op # "processing"
  /\ \E fp \in RouterPaths, hint \in RouterHints : CallSelect(fp, hint)

RouterProcesses ==
  /\ call.op # "processing"
  /\ \E fp \in RouterPaths, hint \in RouterHints : CallProcess(fp, hint)

RouterProcessEnds == \E ok \in BOOLEAN : ProcessEngineEnds(ok)

RouterBatches ==
  \E fp \in RouterPaths, fl \in BOOLEAN :
    ProcessBatch(<< fp >>, None, 1, FALSE, << fl >>)

RouterCompares ==
  \E names \in {None, Some(<< "pymupdf", "tesseract" >>)} :
    CallCompare(APdf, names)

RouterCompareEnds == \E ok \in BOOLEAN : CompareEngineEnds(ok)

RouterNext ==
  \/ RouterSelects \/ RouterProcesses \/ RouterProcessEnds
  \/ RouterBatches \/ TaskStart \/ TaskFinish \/ Return
  \/ RouterCompares \/ RouterCompareEnds

RouterSpec == RouterInit /\ [][RouterNext]_vars

(***************************************************************************)
(* MarkerEngine._call_marker: the submission and the status-polling loop.  *)
(***************************************************************************)
DEFAULT_MAX_POLLS == 300

\* what a status poll can answer: a JSON body with the status "complete" or
\* "failed", with another status, or without one, or an HTTP error or a
\* request that ran into its timeout
PollAnswers == {"complete", "failed", "processing", "", "http error"}

\* one turn of the polling loop, were the turns not counted
AfterPoll_NeverGivesUp(m, answer) ==
  IF answer = "http error"
  THEN [m EXCEPT !.polls = @ + 1, !.status = answer, !.pc = "raised",
                 !.exc = "HTTPError"]
  ELSE IF answer = "complete"
  THEN [m EXCEPT !.polls = @ + 1, !.status = answer, !.pc = "returned"]
  ELSE IF answer = "failed"
  THEN [m EXCEPT !.polls = @ + 1, !.status = answer, !.pc = "raised",
                 !.exc = "RuntimeError"]
  ELSE [m EXCEPT !.status = answer]

\* one turn of the polling loop: sleep, GET check_url, raise_for_status,
\* look at the status; after the last turn the loop is left and TimeoutError
\* is raised
AfterPoll(m, answer) ==
  IF answer = "http error"
  THEN [m EXCEPT !.polls = @ + 1, !.status = answer, !.pc = "raised",
                 !.exc = "HTTPError"]
  ELSE IF answer = "complete"
  THEN [m EXCEPT !.polls = @ + 1, !.status = answer, !.pc = "returned"]
  ELSE IF answer = "failed"
  THEN [m EXCEPT !.polls = @ + 1, !.status = answer, !.pc = "raised",
                 !.exc = "RuntimeError"]
  ELSE IF m.polls + 1 = DEFAULT_MAX_POLLS
  THEN [m EXCEPT !.polls = @ + 1, !.status = answer, !.pc = "raised",
                 !.exc = "TimeoutError"]
  ELSE [m EXCEPT !.polls = @ + 1, !.status = answer]

\* _call_marker up to the loop: the document is posted; an HTTP error of
\* the submission is raised, otherwise the loop is entered
MarkerSubmit(ok) ==
  /\ marker.pc \in {"idle", "returned", "raised"}
  /\ marker' = IF ok
               THEN [pc |-> "polling", polls |-> 0, status |-> "", exc |-> ""]
               ELSE [pc |-> "raised", polls |-> 0, status |-> "",
                     exc |-> "HTTPError"]
  /\ UNCHANGED << routerVars, batchVars, call, registered, comparison,
                  evaluation, metric >>

\* the status poll under way is answered
MarkerPoll(answer) ==
  /\ marker.pc = "polling"
  /\ marker' = AfterPoll(marker, answer)
  /\ UNCHANGED << routerVars, batchVars, call, registered, comparison,
                  evaluation, metric >>

MarkerCall == \E ok \in BOOLEAN : MarkerSubmit(ok)

MarkerPolled == \E answer \in PollAnswers : MarkerPoll(answer)

MarkerNext == MarkerCall \/ MarkerPolled

\* the sleep between two polls is finite and every request is made with
\* timeout=30, so a poll under way is answered
MarkerSpec == Init /\ [][MarkerNext]_vars /\ WF_vars(MarkerPolled)

(***************************************************************************)
(* EvaluationRunner.run.                                                   *)
(***************************************************************************)
\* PurePath.stem: the name without its suffix
PathStem(p) ==
  The({ SubSeq(name, 1, Len(name) - Len(PathSuffix(p))) :
          name \in {PathName(p)} })

\* the engine of the runner tests and two more
EvalEngines ==
  << Engine("stub", TRUE, {"pdf", "txt"}),
     Engine("docling", TRUE, {"pdf", "docx"}),
     Engine("tesseract", FALSE, {"png", "pdf"}) >>

HelloText == << "h", "i", " ", "y", "o" >>

OtherText == << "h", "i", " ", "y", "a", " ", "!" >>

\* what an engine's process() returns for a document
Extracted(engine) ==
  [content |-> IF engine.name = "stub" THEN HelloText ELSE OtherText,
   engine_name |-> engine.name,
   processing_time_ms |-> IF engine.name = "stub" THEN 42 ELSE 7]

\* the *.ground_truth.json files under dataset_path, in the order rglob
\* yields them: the directory they are in, the document of the same stem
\* beside them if there is one, and their content
Dataset ==
  << [dir |-> "reports",
      document |-> Some(<< "r", "e", "p", ".", "p", "d", "f" >>),
      document_id |-> None, category |-> None, full_text |-> None],
     [dir |-> "reports",
      document |-> None,
      document_id |-> Some("lost"), category |-> Some("report"),
      full_text |-> Some(HelloText)],
     [dir |-> "invoices",
      document |-> Some(<< "i", "n", "v", ".", "t", "x", "t" >>),
      document_id |-> Some("inv_001"), category |-> Some("invoice"),
      full_text |-> Some(HelloText)] >>

\* _discover_ground_truth: the files of the wanted categories that have a
\* document beside them
DiscoverGroundTruth(categories) ==
  LET Wanted(gt) ==
        /\ ~(~IsNone(categories) /\ Val(categories) # {}
              /\ gt.dir \notin Val(categories))
        /\ ~IsNone(gt.document)
  IN  SelectSeq(Dataset, Wanted)

\* engines or [e["name"] for e in router.list_engines() if e["available"]]
AvailableEngines(reg, engs) ==
  IF ~IsNone(engs) /\ Val(engs) # <<>> THEN Val(engs)
  ELSE LET IsAvailable(e) == e.available
           found == SelectSeq(reg, IsAvailable)
       IN  [i \in 1..Len(found) |-> found[i].name]

\* ground_truth.get("document_id", doc_path.stem)
DocId(gt) ==
  IF ~IsNone(gt.document_id) THEN Val(gt.document_id)
  ELSE Join(PathStem(Val(gt.document)))

\* ground_truth.get("category", "unknown")
CategoryOf(gt) == IF ~IsNone(gt.category) THEN Val(gt.category) ELSE "unknown"

\* ground_truth.get("ground_truth", {}).get("full_text", "")
RefText(gt) == IF ~IsNone(gt.full_text) THEN Val(gt.full_text) ELSE <<>>

\* the DocumentScore of the except branch of _evaluate_single
ErrorScore(gt, engine_name, exc) ==
  [document_id |-> DocId(gt), engine_name |-> engine_name,
   category |-> CategoryOf(gt), cer |-> None, wer |-> None,
   processing_time_ms |-> 0, error |-> Some(exc.msg)]

\* the DocumentScore _evaluate_single returns for a result
ResultScore(gt, engine_name, result) ==
  [document_id |-> DocId(gt), engine_name |-> engine_name,
   category |-> CategoryOf(gt),
   cer |-> IF RefText(gt) # <<>>
           THEN Some(ComputeCer(result.content, RefText(gt))) ELSE None,
   wer |-> IF RefText(gt) # <<>>
           THEN Some(ComputeWer(result.content, RefText(gt))) ELSE None,
   processing_time_ms |-> result.processing_time_ms, error |-> None]

\* the engine names of the scores without error, in order of first appearance
RECURSIVE ScoredEngines(_)
ScoredEngines(scores) ==
  IF scores = <<>> THEN <<>>
  ELSE LET front == ScoredEngines(SubSeq(scores, 1, Len(scores) - 1))
           s     == scores[Len(scores)]
       IN  IF IsNone(s.error)
              /\ \A i \in 1..Len(front) : front[i] # s.engine_name
           THEN Append(front, s.engine_name)
           ELSE front

\* _compute_summaries: per engine, over its scores without error
ComputeSummaries(scores) ==
  LET names == ScoredEngines(scores)
      Summary(name) ==
        LET Mine(s)   == IsNone(s.error) /\ s.engine_name = name
            HasCer(s) == Mine(s) /\ ~IsNone(s.cer)
            HasWer(s) == Mine(s) /\ ~IsNone(s.wer)
            sc_list   == SelectSeq(scores, Mine)
            cers      == SelectSeq(scores, HasCer)
            wers      == SelectSeq(scores, HasWer)
        IN  [avg_cer |-> Average([i \in 1..Len(cers) |-> Val(cers[i].cer)]),
             avg_wer |-> Average([i \in 1..Len(wers) |-> Val(wers[i].wer)]),
             avg_time_ms |->
               Average([i \in 1..Len(sc_list) |->
                          Rat(sc_list[i].processing_time_ms, 1)]),
             documents_evaluated |-> Len(sc_list)]
  IN  [name \in {names[i] : i \in 1..Len(names)} |-> Summary(name)]

\* the document and the engine name of pair n of the two nested loops
PairDoc(ev, n) == ev.gt_files[((n - 1) \div Len(ev.available_engines)) + 1]

PairEngine(ev, n) == ev.available_engines[((n - 1) % Len(ev.available_engines)) + 1]

\* run() from the pair it stands at to its next await: a pair whose
\* select() raises gets its error score and the loops go on; a pair whose
\* select() returns waits for the engine; after the last pair the summaries
\* are computed and the report is returned
RECURSIVE Advance(_, _, _, _, _)
Advance(reg, fo, allowed, env, ev) ==
  IF ev.n > Len(ev.gt_files) * Len(ev.available_engines)
  THEN [ev EXCEPT !.pc = "returned", !.n = 0,
                  !.engine_summaries = ComputeSummaries(ev.scores)]
  ELSE The({ IF sel.raised
             THEN Advance(reg, fo, allowed, env,
                    [ev EXCEPT !.scores = Append(@, ErrorScore(PairDoc(ev, ev.n),
                                             PairEngine(ev, ev.n), sel.exc)),
                               !.outcomes = Append(@, "select raised"),
                               !.n = @ + 1])
             ELSE [ev EXCEPT !.pc = "awaiting", !.engine = sel.engine] :
               sel \in {Select(reg, fo, allowed, env,
                               Val(PairDoc(ev, ev.n).document),
                               Some(PairEngine(ev, ev.n)))} })

\* run() from its call to its first await
StartRun(reg, fo, allowed, env, engs, categories) ==
  Advance(reg, fo, allowed, env,
          [pc |-> "running", engines |-> engs, categories |-> categories,
           gt_files |-> DiscoverGroundTruth(categories),
           available_engines |-> AvailableEngines(reg, engs),
           n |-> 1, engine |-> NoEngine, outcomes |-> <<>>, scores |-> <<>>,
           engine_summaries |-> <<>>])

\* run() after an engine's process(), were its exception not caught
AfterExtraction_RaiseAborts(reg, fo, allowed, env, ev, ok) ==
  LET gt == PairDoc(ev, ev.n)
  IN  IF ~ok
      THEN [ev EXCEPT !.outcomes = Append(@, "process raised"),
                      !.pc = "raised", !.n = 0, !.engine = NoEngine]
      ELSE Advance(reg, fo, allowed, env,
             [ev EXCEPT !.scores = Append(@, ResultScore(gt, PairEngine(ev, ev.n),
                                                        Extracted(ev.engine))),
                        !.outcomes = Append(@, "returned"),
                        !.n = @ + 1, !.engine = NoEngine])

\* run() from the end of an engine's process() to its next await: the pair
\* gets the score of the result, or of the exception
AfterExtraction(reg, fo, allowed, env, ev, ok) ==
  LET gt    == PairDoc(ev, ev.n)
      ename == PairEngine(ev, ev.n)
      score == IF ok THEN ResultScore(gt, ename, Extracted(ev.engine))
               ELSE ErrorScore(gt, ename, ProcessError(Val(gt.document)))
  IN  Advance(reg, fo, allowed, env,
        [ev EXCEPT !.scores = Append(@, score),
                   !.outcomes = Append(@, IF ok THEN "returned"
                                          ELSE "process raised"),
                   !.n = @ + 1, !.engine = NoEngine])

EvalEngineLists ==
  {None, Some(<<>>), Some(<< "stub" >>), Some(<< "nonexistent" >>),
   Some(<< "tesseract", "stub" >>), Some(<< "docling", "stub" >>)}

EvalCategories ==
  {None, Some({}), Some({"invoices"}), Some({"nonexistent"})}

\* EvaluationRunner(EngineRouter(EvalEngines), dataset_path)
EvalInit ==
  /\ engines = EvalEngines
  /\ fallback_order = None /\ allowed_engines = None /\ env_default = None
  /\ call = NoCall
  /\ Idle
  /\ registered = EvalEngines
  /\ comparison = NoComparison /\ evaluation = NoEvaluation
  /\ metric = NoMetric /\ marker = NoMarker

\* a caller calls run(engines, categories)
CallRun(engs, categories) ==
  /\ evaluation.pc \in {"idle", "returned"}
  /\ evaluation' = StartRun(engines, fallback_order, allowed_engines,
                            env_default, engs, categories)
  /\ UNCHANGED << routerVars, batchVars, call, registered, comparison,
                  adapterVars >>

\* the process() call of the engine under way returns (ok) or raises
EvalEngineEnds(ok) ==
  /\ evaluation.pc = "awaiting"
  /\ evaluation' = AfterExtraction(engines, fallback_order, allowed_engines,
                                   env_default, evaluation, ok)
  /\ UNCHANGED << routerVars, batchVars, call, registered, comparison,
                  adapterVars >>

EvalNext ==
  \/ \E engs \in EvalEngineLists, categories \in EvalCategories :
       CallRun(engs, categories)
  \/ \E ok \in BOOLEAN : EvalEngineEnds(ok)

EvalSpec == EvalInit /\ [][EvalNext]_vars

(***************************************************************************)
(* The registry on its own: a router constructed without engines, any      *)
(* sequence of register() calls.                                           *)
(***************************************************************************)
MaxRegistrations == 3

\* EngineRouter()
RegistryInit ==
  /\ engines = <<>>
  /\ fallback_order = None /\ allowed_engines = None /\ env_default = None
  /\ call = NoCall
  /\ Idle
  /\ registered = <<>>
  /\ comparison = NoComparison /\ evaluation = NoEvaluation
  /\ metric = NoMetric /\ marker = NoMarker

\* a caller calls register(engine)
CallRegister(engine) ==
  /\ Len(registered) < MaxRegistrations
  /\ engines' = Register(engines, engine)
  /\ registered' = Append(registered, engine)
  /\ UNCHANGED << fallback_order, allowed_engines, env_default, call,
                  batchVars, runVars >>

RegistryNext == \E engine \in EnginePool : CallRegister(engine)

RegistrySpec == RegistryInit /\ [][RegistryNext]_vars

(***************************************************************************)
(* Properties of process_batch (specifications Spec and LiveSpec).         *)
(***************************************************************************)
Tasks == DOMAIN task

Ended(i) == task[i] \in {"done", "raised"}

InFlight == Cardinality({i \in Tasks : task[i] = "processing"})

\* the positions of the events delivered for file task i
EventsOf(i) == {k \in 1..Len(events) : events[k].current = i}

CallbackRaised(i, status) ==
  \E k \in EventsOf(i) : events[k].status = status /\ events[k].raised

\* what select() answers for file task i
SelectionOf(i) ==
  Select(engines, fallback_order, allowed_engines, env_default,
         file_paths[i], engine_hint)

\* file task i is the only one of its path
OnlyOne(i) == \A j \in Tasks : file_paths[j] = file_paths[i] => j = i

DistinctPaths == \A i \in Tasks : OnlyOne(i)

Terminal == {"completed", "failed"}

\* C1: an exception of select() or of the engine's process() for a file is
\* recorded under the file's path in errors with its message, and every file
\* task that has ended has the outcome its own selection and its own engine
\* call decide, whatever the other tasks did and in whatever order they
\* ended.  (When the list repeats a path the entry holds the message of the
\* last failure of that path.)
C1_FailureIsolated ==
  \A i \in Tasks :
    Ended(i) =>
      LET fp  == file_paths[i]
          sel == SelectionOf(i)
      IN  /\ sel.raised =>
               /\ fp \in DOMAIN batch.errors
               /\ OnlyOne(i) => batch.errors[fp] = sel.exc.msg
          /\ (~sel.raised /\ ~CallbackRaised(i, "processing") /\ fails[i]) =>
               /\ fp \in DOMAIN batch.errors
               /\ OnlyOne(i) => batch.errors[fp] = ProcessError(fp).msg
          /\ (~sel.raised /\ ~CallbackRaised(i, "processing") /\ ~fails[i]) =>
               /\ fp \in DOMAIN batch.results
               /\ batch.results[fp] = Result(sel.engine, fp)

\* a batch of two different files under concurrency 2 has returned: the first
\* file failed in the engine, the second succeeded
C1_Witness ==
  /\ bpc = "returned" /\ Len(file_paths) = 2 /\ concurrency = 2
  /\ file_paths[1] # file_paths[2]
  /\ ~SelectionOf(1).raised /\ fails[1] /\ ~fails[2]
  /\ file_paths[1] \in DOMAIN batch.errors
  /\ file_paths[2] \in DOMAIN batch.results

\* C2: the BatchResult process_batch returns has succeeded + failed = total
C2_CountsAddUp ==
  bpc = "returned" => batch.succeeded + batch.failed = batch.total

\* C3: once process_batch has returned, every input path is a key of exactly
\* one of results and errors
C3_ExactlyOneMap ==
  bpc = "returned" =>
    \A i \in Tasks :
      (file_paths[i] \in DOMAIN batch.results)
        # (file_paths[i] \in DOMAIN batch.errors)

\* C4 as stated: once process_batch has returned, succeeded is the number of
\* entries of results and failed the number of entries of errors, for every
\* input list
C4_CountersMatchMaps ==
  bpc = "returned" =>
    /\ batch.succeeded = Cardinality(DOMAIN batch.results)
    /\ batch.failed = Cardinality(DOMAIN batch.errors)

\* C4 amended: the counters equal the map sizes when no path is named twice;
\* in general they are at least the map sizes
C4_CountersMatchMapsDistinct ==
  bpc = "returned" =>
    /\ batch.succeeded >= Cardinality(DOMAIN batch.results)
    /\ batch.failed >= Cardinality(DOMAIN batch.errors)
    /\ DistinctPaths =>
         /\ batch.succeeded = Cardinality(DOMAIN batch.results)
         /\ batch.failed = Cardinality(DOMAIN batch.errors)

\* a batch of two different paths has returned with a success and a failure
C4_Witness ==
  /\ bpc = "returned" /\ Len(file_paths) = 2 /\ DistinctPaths
  /\ batch.succeeded = 1 /\ batch.failed = 1

\* C5: never more than concurrency engine calls are in flight
C5_BoundedInFlight == InFlight <= concurrency

\* the limit is reached while a file is still waiting for the semaphore
C5_Witness ==
  /\ bpc = "gathering" /\ concurrency >= 1 /\ InFlight = concurrency
  /\ \E i \in Tasks : task[i] = "pending"

\* C6: every call of process_batch returns a BatchResult
C6_AlwaysReturns == (bpc # "idle") ~> (bpc = "returned")

\* C7: no "processing" event of a file follows a terminal event of that file,
\* and a "completed" event follows the file's "processing" event
C7_ProcessingFirst ==
  \A k \in 1..Len(events) :
    /\ events[k].status = "processing" =>
         \A j \in 1..(k - 1) : events[j].current # events[k].current
    /\ events[k].status = "completed" =>
         \E j \in 1..(k - 1) :
           /\ events[j].current = events[k].current
           /\ events[j].status = "processing"

\* the events of two files interleave: the file started second ends first
C7_Witness ==
  /\ Len(events) = 4
  /\ events[1].status = "processing" /\ events[1].current = 1
  /\ events[2].status = "processing" /\ events[2].current = 2
  /\ events[3].status \in Terminal /\ events[3].current = 2
  /\ events[4].status \in Terminal /\ events[4].current = 1

\* C8: with a callback, a file whose task has ended has received exactly two
\* events, "processing" and then a terminal one
C8_TwoEventsPerFile ==
  on_progress =>
    \A i \in Tasks :
      Ended(i) =>
        /\ Cardinality(EventsOf(i)) = 2
        /\ \E j, k \in EventsOf(i) :
             /\ j < k
             /\ events[j].status = "processing"
             /\ events[k].status \in Terminal

HintGiven == ~IsNone(engine_hint) /\ Val(engine_hint) # ""

HintUsable ==
  /\ ~IsNone(Get(engines, Val(engine_hint)))
  /\ Val(Get(engines, Val(engine_hint))).available

\* C9: with a hint, every entry of results comes from the hinted engine; with
\* a hint that names no usable engine every file that was handled is in
\* errors, and process_batch goes on to return: it neither raises nor stops
C9_HintUniform ==
  (bpc # "idle" /\ HintGiven) =>
    /\ \A fp \in DOMAIN batch.results :
         batch.results[fp].engine_name = Val(engine_hint)
    /\ ~HintUsable =>
         /\ \A i \in Tasks : Ended(i) => file_paths[i] \in DOMAIN batch.errors
         /\ DOMAIN batch.results = {}
         /\ bpc # "raised"
         /\ bpc = "gathering" => ENABLED (TaskStart \/ TaskFinish \/ Return)

(***************************************************************************)
(* Properties of select() (specification SelectSpec).                      *)
(***************************************************************************)
\* C10: select() with a hint that names a registered, available engine
\* returns that engine, whatever the extension of the file
C10_HintWins ==
  (/\ call.op = "select"
   /\ ~IsNone(call.hint)
   /\ ~IsNone(Get(engines, Val(call.hint)))
   /\ Val(Get(engines, Val(call.hint))).available) =>
    call.result = Returned(Val(Get(engines, Val(call.hint))))

\* the hinted engine was returned for a file whose extension it does not list
C10_Witness ==
  /\ call.op = "select" /\ ~IsNone(call.hint)
  /\ ~call.result.raised
  /\ call.result.engine.name = Val(call.hint)
  /\ ExtOf(call.file_path) # ""
  /\ ExtOf(call.file_path) \notin call.result.engine.supported_extensions

\* the call was select() without a hint (none, or the empty string)
NoHint == call.op = "select" /\ (IsNone(call.hint) \/ Val(call.hint) = "")

\* the call was select() with a hint
WithHint == call.op = "select" /\ ~IsNone(call.hint) /\ Val(call.hint) # ""

\* the extension of the file of the call
CallExt == ExtOf(call.file_path)

\* an engine is extension-compatible with a file when the file has no
\* extension or the engine lists it
Compatible(e, ext) == ext = "" \/ ext \in e.supported_extensions

\* a name is allow-listed when no allow-list is configured or it is a member
AllowListed(n) == IsNone(allowed_engines) \/ n \in Val(allowed_engines)

Qualifies(e, ext) == e.available /\ Compatible(e, ext) /\ AllowListed(e.name)

\* the name is that of a registered engine that qualifies
NameQualifies(n, ext) ==
  \E i \in 1..Len(engines) : engines[i].name = n /\ Qualifies(engines[i], ext)

\* the one priority list that applies to an extension
ApplicableList(ext) ==
  IF ~IsNone(fallback_order) THEN Val(fallback_order)
  ELSE IF ext \in DOMAIN EXTENSION_PRIORITY THEN EXTENSION_PRIORITY[ext]
  ELSE DEFAULT_FALLBACK

\* C11: select() with a hint that names no registered engine raises the
\* unknown-engine error, with a hint that names a registered, unavailable
\* engine the engine-unavailable error; no other engine is returned
C11_HintNeverFallsBack ==
  WithHint =>
    /\ Val(call.hint) \notin Names(engines) =>
         call.result = Raised(UnknownEngineError(engines, Val(call.hint)))
    /\ (\E i \in 1..Len(engines) :
          engines[i].name = Val(call.hint) /\ ~engines[i].available) =>
         call.result = Raised(EngineUnavailableError(Val(call.hint)))

\* the hinted engine is registered and unavailable, select() raised although
\* another registered engine qualifies for the file
C11_Witness ==
  /\ WithHint /\ call.result.raised /\ call.result.exc.type = "RuntimeError"
  /\ Val(call.hint) \in Names(engines)
  /\ \E i \in 1..Len(engines) : Qualifies(engines[i], CallExt)

\* C12: without a hint and without an environment default, select() returns
\* the engine of the first name of the applicable priority list that is
\* registered and qualifies, whatever the registration order
C12_PriorityListOrder ==
  (NoHint /\ IsNone(env_default)) =>
    \A k \in 1..Len(ApplicableList(CallExt)) :
      (/\ NameQualifies(ApplicableList(CallExt)[k], CallExt)
       /\ \A j \in 1..(k - 1) :
            ~NameQualifies(ApplicableList(CallExt)[j], CallExt)) =>
        /\ ~call.result.raised
        /\ call.result.engine.name = ApplicableList(CallExt)[k]
        /\ \E i \in 1..Len(engines) : engines[i] = call.result.engine

\* the built-in list chose the engine registered second although the engine
\* registered first qualifies as well
C12_Witness ==
  /\ NoHint /\ IsNone(env_default) /\ IsNone(fallback_order)
  /\ Len(engines) = 2 /\ Qualifies(engines[1], CallExt)
  /\ ~call.result.raised /\ call.result.engine = engines[2]

\* C13: without a hint, an environment default that names a qualifying
\* engine is returned ahead of every priority list; one that names an
\* unregistered, unavailable or extension-incompatible engine changes
\* nothing: select() answers as it does without an environment default
C13_EnvDefault ==
  (NoHint /\ ~IsNone(env_default)) =>
    /\ NameQualifies(Val(env_default), CallExt) =>
         /\ ~call.result.raised
         /\ call.result.engine.name = Val(env_default)
         /\ \E i \in 1..Len(engines) : engines[i] = call.result.engine
    /\ (\/ Val(env_default) \notin Names(engines)
        \/ \E i \in 1..Len(engines) :
             /\ engines[i].name = Val(env_default)
             /\ (~engines[i].available \/ ~Compatible(engines[i], CallExt))) =>
         call.result = Select(engines, fallback_order, allowed_engines, None,
                              call.file_path, call.hint)

\* the environment default was returned although the custom fallback_order
\* alone chooses another engine
C13_Witness ==
  /\ NoHint /\ ~IsNone(env_default)
  /\ ~IsNone(fallback_order) /\ Val(fallback_order) # <<>>
  /\ ~call.result.raised /\ call.result.engine.name = Val(env_default)
  /\ ~Select(engines, fallback_order, allowed_engines, None,
             call.file_path, call.hint).raised
  /\ Select(engines, fallback_order, allowed_engines, None,
            call.file_path, call.hint).engine.name # Val(env_default)

\* C14: with an allow-list configured, select() never returns an engine
\* whose name is outside the allow-list, with or without a hint
C14_AllowListRespected ==
  (call.op = "select" /\ ~IsNone(allowed_engines) /\ ~call.result.raised) =>
    call.result.engine.name \in Val(allowed_engines)

\* C15: with an allow-list (the empty set included) that holds no registered
\* engine that is available and extension-compatible, select() without a
\* hint raises the no-suitable-engine error
C15_AllowListExcludesAll ==
  (/\ NoHint /\ ~IsNone(allowed_engines)
   /\ \A i \in 1..Len(engines) :
        (engines[i].available /\ Compatible(engines[i], CallExt)) =>
          engines[i].name \notin Val(allowed_engines)) =>
    call.result = Raised(NoSuitableEngineError(engines, CallExt))

\* no name of the applicable priority list qualifies
NoListNameQualifies ==
  \A k \in 1..Len(ApplicableList(CallExt)) :
    ~NameQualifies(ApplicableList(CallExt)[k], CallExt)

\* the engine is the first of the registry that qualifies
FirstQualifying(e) ==
  \E i \in 1..Len(engines) :
    /\ engines[i] = e /\ Qualifies(e, CallExt)
    /\ \A j \in 1..(i - 1) : ~Qualifies(engines[j], CallExt)

\* without a hint, select() raises only the no-suitable-engine error and only
\* when no registered engine qualifies; otherwise it returns a registered
\* engine that qualifies
ReturnsWhenPossible ==
  /\ call.result.raised =>
       /\ call.result = Raised(NoSuitableEngineError(engines, CallExt))
       /\ \A i \in 1..Len(engines) : ~Qualifies(engines[i], CallExt)
  /\ (\E i \in 1..Len(engines) : Qualifies(engines[i], CallExt)) =>
       /\ ~call.result.raised
       /\ \E i \in 1..Len(engines) :
            engines[i] = call.result.engine /\ Qualifies(engines[i], CallExt)

\* C16 as stated: without a hint select() returns an engine whenever one
\* qualifies, and when no name of the priority list qualifies the engine
\* returned is the first qualifying engine in registration order
C16_RegistryFallback ==
  NoHint =>
    /\ ReturnsWhenPossible
    /\ ((\E i \in 1..Len(engines) : Qualifies(engines[i], CallExt))
          /\ NoListNameQualifies) =>
         FirstQualifying(call.result.engine)

\* C16 amended: the engine returned is the first qualifying engine in
\* registration order when neither the environment default nor a name of
\* the priority list qualifies; a qualifying environment default is returned
C16_RegistryFallbackAfterEnv ==
  NoHint =>
    /\ ReturnsWhenPossible
    /\ ((\E i \in 1..Len(engines) : Qualifies(engines[i], CallExt))
          /\ NoListNameQualifies) =>
         IF ~IsNone(env_default) /\ NameQualifies(Val(env_default), CallExt)
         THEN call.result.engine.name = Val(env_default)
         ELSE FirstQualifying(call.result.engine)

\* no name of the built-in list qualifies and the registry walk passed over
\* the engine registered first for the one registered second
C16_Witness ==
  /\ NoHint /\ IsNone(fallback_order) /\ NoListNameQualifies
  /\ Len(engines) = 2 /\ engines[1].available
  /\ ~Qualifies(engines[1], CallExt)
  /\ ~call.result.raised /\ call.result.engine = engines[2]

\* the list select() walks for a file without extension
GenericList ==
  IF ~IsNone(fallback_order) THEN Val(fallback_order) ELSE DEFAULT_FALLBACK

\* the name is that of a registered engine that is available and
\* allow-listed
NameUsable(n) ==
  \E i \in 1..Len(engines) :
    engines[i].name = n /\ engines[i].available /\ AllowListed(n)

\* C30: for a file without extension and a call without hint, every
\* registered engine that is available and allow-listed is a candidate
\* whatever extensions it supports; select() raises only when there is no
\* such engine, and then the no-suitable-engine error; without an
\* environment default the engine returned is that of the first usable name
\* of fallback_order, or of the generic default order when none was given
C30_NoExtensionSkipsCompatibility ==
  (NoHint /\ CallExt = "") =>
    /\ \A i \in 1..Len(engines) :
         (engines[i].available /\ AllowListed(engines[i].name)) =>
           IsCandidate(allowed_engines, engines[i], CallExt)
    /\ call.result.raised =>
         /\ call.result = Raised(NoSuitableEngineError(engines, CallExt))
         /\ \A i \in 1..Len(engines) :
              ~(engines[i].available /\ AllowListed(engines[i].name))
    /\ (\E i \in 1..Len(engines) :
          engines[i].available /\ AllowListed(engines[i].name)) =>
         /\ ~call.result.raised
         /\ \E i \in 1..Len(engines) :
              engines[i] = call.result.engine /\ engines[i].available
    /\ IsNone(env_default) =>
         \A k \in 1..Len(GenericList) :
           (/\ NameUsable(GenericList[k])
            /\ \A j \in 1..(k - 1) : ~NameUsable(GenericList[j])) =>
             /\ ~call.result.raised
             /\ call.result.engine.name = GenericList[k]

\* a file without extension went to an engine of the generic default order
\* that supports some extensions, although the engine registered first is
\* available too
C30_Witness ==
  /\ NoHint /\ CallExt = "" /\ call.file_path # <<>>
  /\ IsNone(env_default) /\ IsNone(fallback_order)
  /\ Len(engines) = 2 /\ engines[1].available
  /\ ~call.result.raised /\ call.result.engine = engines[2]
  /\ call.result.engine.supported_extensions # {}

(***************************************************************************)
(* Properties of register() (specification RegistrySpec).                  *)
(***************************************************************************)
\* the position of the last register() call made under a name
LastRegistration(n) ==
  CHOOSE k \in 1..Len(registered) :
    /\ registered[k].name = n
    /\ \A j \in (k + 1)..Len(registered) : registered[j].name # n

\* C17: after any sequence of register() calls the registry holds one engine
\* per name that was registered, the one registered last under that name,
\* and registering the engine registered last once more changes nothing
C17_LastRegistrationWins ==
  /\ \A i, j \in 1..Len(engines) : engines[i].name = engines[j].name => i = j
  /\ Names(engines) = {registered[k].name : k \in 1..Len(registered)}
  /\ \A i \in 1..Len(engines) :
       engines[i] = registered[LastRegistration(engines[i].name)]
  /\ registered # <<>> =>
       Register(engines, registered[Len(registered)]) = engines

\* a name was registered, another name after it, and then the first name
\* again with a different engine
C17_Witness ==
  /\ Len(registered) = 3
  /\ registered[1].name = registered[3].name /\ registered[1] # registered[3]
  /\ registered[2].name # registered[1].name
  /\ Len(engines) = 2 /\ Get(engines, registered[1].name) = Some(registered[3])

(***************************************************************************)
(* Properties of compare() (specification CompareSpec).                    *)
(***************************************************************************)
\* compare() was called with names
NamesGiven == ~IsNone(comparison.names) /\ Val(comparison.names) # <<>>

\* the name is that of a registered engine that is available
RegisteredAvailable(n) ==
  \E i \in 1..Len(engines) : engines[i].name = n /\ engines[i].available

\* the engine is available and extension-compatible with the compared file
AvailableCompatible(e) ==
  e.available /\ Compatible(e, ExtOf(comparison.file_path))

\* the names of the engines compare() has to call process() on, in order
ExpectedCalls ==
  IF NamesGiven
  THEN SelectSeq(Val(comparison.names), RegisteredAvailable)
  ELSE LET found == SelectSeq(engines, AvailableCompatible)
       IN  [i \in 1..Len(found) |-> found[i].name]

\* C18: compare() calls process() on the registered engines that are
\* available and extension-compatible with the file, or, with names, on the
\* named engines that are registered and available, and on no other
C18_CompareTargets ==
  /\ comparison.pc = "returned" => comparison.called = ExpectedCalls
  /\ comparison.pc = "awaiting" =>
       /\ Len(comparison.called) <= Len(ExpectedCalls)
       /\ comparison.called = SubSeq(ExpectedCalls, 1, Len(comparison.called))

\* compare() with names has returned: an unavailable and an unregistered
\* name were passed over and the remaining named engine was run
C18_Witness ==
  /\ comparison.pc = "returned" /\ NamesGiven
  /\ \E i \in 1..Len(Val(comparison.names)) :
       Val(comparison.names)[i] \notin Names(engines)
  /\ \E i \in 1..Len(Val(comparison.names)) :
       /\ Val(comparison.names)[i] \in Names(engines)
       /\ ~RegisteredAvailable(Val(comparison.names)[i])
  /\ Len(comparison.called) = 1

\* C19: compare() does not raise, runs every target whatever the earlier
\* ones did, and returns an entry for exactly the target engines whose
\* process() returned
C19_CompareIsolatesFailures ==
  /\ comparison.pc \in {"idle", "awaiting", "returned"}
  /\ comparison.pc = "returned" =>
       /\ Len(comparison.outcomes) = Len(comparison.targets)
       /\ DOMAIN comparison.results =
            {comparison.called[i] :
               i \in {j \in 1..Len(comparison.called) : comparison.outcomes[j]}}
       /\ \A i \in 1..Len(comparison.called) :
            comparison.outcomes[i] =>
              comparison.results[comparison.called[i]] =
                Result(comparison.targets[i], comparison.file_path)

\* compare() has returned after the first of two engines raised: the map
\* holds the second engine alone
C19_Witness ==
  /\ comparison.pc = "returned" /\ Len(comparison.targets) = 2
  /\ comparison.targets[1].name # comparison.targets[2].name
  /\ ~comparison.outcomes[1] /\ comparison.outcomes[2]
  /\ DOMAIN comparison.results = {comparison.targets[2].name}

(***************************************************************************)
(* Properties of EvaluationRunner.run (specification EvalSpec).            *)
(***************************************************************************)
\* the engine names run() was asked to evaluate: the list given, or without
\* one (None or an empty list) the registered engines that are available
RequestedEngines ==
  IF ~IsNone(evaluation.engines) /\ Val(evaluation.engines) # <<>>
  THEN Val(evaluation.engines)
  ELSE LET found == SelectSeq(engines, LAMBDA e : e.available)
       IN  [i \in 1..Len(found) |-> found[i].name]

\* the place in scores of the pair of document d and engine e
PairIndex(d, e) == (d - 1) * Len(RequestedEngines) + e

\* C20: run() does not raise and returns one DocumentScore per pair of a
\* discovered document and a requested engine, in loop order; the score of a
\* pair whose selection or extraction failed carries the error and neither
\* CER nor WER, the score of any other pair carries no error
C20_OneScorePerPair ==
  /\ evaluation.pc \in {"idle", "awaiting", "returned"}
  /\ evaluation.pc = "returned" =>
       /\ Len(evaluation.scores) =
            Len(evaluation.gt_files) * Len(RequestedEngines)
       /\ Len(evaluation.outcomes) = Len(evaluation.scores)
       /\ \A d \in 1..Len(evaluation.gt_files), e \in 1..Len(RequestedEngines) :
            /\ evaluation.scores[PairIndex(d, e)].document_id =
                 DocId(evaluation.gt_files[d])
            /\ evaluation.scores[PairIndex(d, e)].engine_name =
                 RequestedEngines[e]
            /\ IF \/ ~RegisteredAvailable(RequestedEngines[e])
                  \/ evaluation.outcomes[PairIndex(d, e)] = "process raised"
               THEN /\ ~IsNone(evaluation.scores[PairIndex(d, e)].error)
                    /\ IsNone(evaluation.scores[PairIndex(d, e)].cer)
                    /\ IsNone(evaluation.scores[PairIndex(d, e)].wer)
               ELSE /\ IsNone(evaluation.scores[PairIndex(d, e)].error)
                    /\ IsNone(evaluation.scores[PairIndex(d, e)].cer) =
                         IsNone(evaluation.gt_files[d].full_text)

\* a run over two documents and two engines has returned four scores: a
\* pair failed and a later pair was scored with a CER
C20_Witness ==
  /\ evaluation.pc = "returned"
  /\ Len(evaluation.gt_files) = 2 /\ Len(RequestedEngines) = 2
  /\ Len(evaluation.scores) = 4
  /\ \E i, j \in 1..4 :
       /\ i < j
       /\ ~IsNone(evaluation.scores[i].error)
       /\ evaluation.outcomes[i] = "process raised"
       /\ IsNone(evaluation.scores[j].error)
       /\ ~IsNone(evaluation.scores[j].cer)

\* the places in scores of the pairs of an engine that succeeded
SucceededPairs(name) ==
  {i \in 1..Len(evaluation.scores) :
     /\ evaluation.scores[i].engine_name = name
     /\ IsNone(evaluation.scores[i].error)}

\* the sum of f[i] over the set S of places
RECURSIVE SumOver(_, _)
SumOver(f, S) ==
  IF S = {} THEN Rat(0, 1)
  ELSE LET i == CHOOSE x \in S : TRUE
       IN  RatAdd(f[i], SumOver(f, S \ {i}))

\* the average that belongs in a summary: of the values present at the
\* places S, the sentinel -1 when there is none
ExpectedAverage(f, S) ==
  LET present == {i \in S : ~IsNone(f[i])}
      total   == SumOver([i \in present |-> Val(f[i])], present)
  IN  IF present = {} THEN NoAverage
      ELSE Rat(total[1], total[2] * Cardinality(present))

\* C21: once run() has returned, every engine that was evaluated (requested
\* while a document was discovered) has an entry in engine_summaries; the
\* entry counts the engine's pairs without error and averages CER, WER and
\* processing time over them, with -1 for an average over no value
C21_SummaryPerEngine ==
  (evaluation.pc = "returned" /\ evaluation.gt_files # <<>>) =>
    \A e \in 1..Len(RequestedEngines) :
      /\ RequestedEngines[e] \in DOMAIN evaluation.engine_summaries
      /\ LET name    == RequestedEngines[e]
             summary == evaluation.engine_summaries[name]
             pairs   == SucceededPairs(name)
         IN  /\ summary.documents_evaluated = Cardinality(pairs)
             /\ summary.avg_cer =
                  ExpectedAverage([i \in 1..Len(evaluation.scores) |->
                                     evaluation.scores[i].cer], pairs)
             /\ summary.avg_wer =
                  ExpectedAverage([i \in 1..Len(evaluation.scores) |->
                                     evaluation.scores[i].wer], pairs)
             /\ summary.avg_time_ms =
                  ExpectedAverage([i \in 1..Len(evaluation.scores) |->
                                     Some(Rat(evaluation.scores[i]
                                                .processing_time_ms, 1))], pairs)

\* what engine_summaries does hold: an entry, as described, for the engines
\* with a pair that succeeded, and none for an engine without such a pair
SummariesOfScoredEngines ==
  evaluation.pc = "returned" =>
    /\ DOMAIN evaluation.engine_summaries =
         {RequestedEngines[e] :
            e \in {x \in 1..Len(RequestedEngines) :
                     SucceededPairs(RequestedEngines[x]) # {}}}
    /\ \A name \in DOMAIN evaluation.engine_summaries :
         LET summary == evaluation.engine_summaries[name]
             pairs   == SucceededPairs(name)
         IN  /\ summary.documents_evaluated = Cardinality(pairs)
             /\ summary.avg_cer =
                  ExpectedAverage([i \in 1..Len(evaluation.scores) |->
                                     evaluation.scores[i].cer], pairs)
             /\ summary.avg_wer =
                  ExpectedAverage([i \in 1..Len(evaluation.scores) |->
                                     evaluation.scores[i].wer], pairs)
             /\ summary.avg_time_ms =
                  ExpectedAverage([i \in 1..Len(evaluation.scores) |->
                                     Some(Rat(evaluation.scores[i]
                                                .processing_time_ms, 1))], pairs)

\* the process() calls of compare() that were made and have not ended
CompareInFlight == Len(comparison.called) - Len(comparison.outcomes)

\* C25: compare() has at most one process() call in flight, exactly one
\* while it awaits and none otherwise; the calls made so far are those of
\* the first targets, in target order, and all but the last of them have
\* returned or raised
C25_CompareSequential ==
  /\ CompareInFlight \in {0, 1}
  /\ CompareInFlight = 1 <=> comparison.pc = "awaiting"
  /\ Len(comparison.called) <= Len(comparison.targets)
  /\ \A i \in 1..Len(comparison.called) :
       comparison.called[i] = comparison.targets[i].name
  /\ comparison.pc = "awaiting" => comparison.k = Len(comparison.called)
  /\ comparison.pc = "returned" =>
       Len(comparison.outcomes) = Len(comparison.targets)

\* compare() over two targets awaits the second one after the first raised
C25_Witness ==
  /\ comparison.pc = "awaiting"
  /\ Len(comparison.targets) = 2
  /\ Len(comparison.called) = 2
  /\ comparison.outcomes = << FALSE >>

(***************************************************************************)
(* Further properties of process_batch (specification Spec).               *)
(***************************************************************************)
\* C24: every progress event carries the 1-based position of its file in
\* the input list, the number of input paths, the file's path and the name
\* of the engine select() resolved for the file (where select() raised no
\* engine was resolved: the one event of that file is "failed" and is named
\* "unknown"); "processing" carries neither result nor error, "completed"
\* carries the engine's result and no error, "failed" carries the exception
\* and no result
C24_EventFields ==
  \A k \in 1..Len(events) :
    LET e == events[k]
    IN  /\ e.current \in 1..Len(file_paths)
        /\ e.total = Len(file_paths)
        /\ e.file_path = file_paths[e.current]
        /\ e.status \in {"processing", "completed", "failed"}
        /\ IF SelectionOf(e.current).raised
           THEN /\ e.status = "failed" /\ e.engine_name = "unknown"
                /\ e.error = SelectionOf(e.current).exc
           ELSE e.engine_name = SelectionOf(e.current).engine.name
        /\ e.status = "processing" => e.result = NoResult /\ e.error = NoExc
        /\ e.status = "completed" =>
             /\ e.result = Result(SelectionOf(e.current).engine, e.file_path)
             /\ e.result # NoResult
             /\ e.error = NoExc
        /\ e.status = "failed" =>
             /\ e.error # NoExc
             /\ e.result = NoResult
             /\ ~SelectionOf(e.current).raised =>
                  e.error \in {ProcessError(e.file_path), CallbackError}

\* a batch of two files: the second one was completed by its engine, and
\* the first one failed in the engine that had been resolved for it
C24_Witness ==
  /\ Len(file_paths) = 2
  /\ \E k \in 1..Len(events) :
       /\ events[k].current = 2 /\ events[k].status = "completed"
       /\ events[k].engine_name = "pymupdf"
  /\ \E k \in 1..Len(events) :
       /\ events[k].current = 1 /\ events[k].status = "failed"
       /\ events[k].error = ProcessError(file_paths[1])

\* no call of on_progress has raised so far
NoCallbackRaised == \A k \in 1..Len(events) : ~events[k].raised

\* the file tasks whose outcome is recorded in the BatchResult
Recorded == {i \in Tasks : Ended(i)}

\* the terminal events among the first k events
TerminalUpTo(k) == {j \in 1..k : events[j].status \in Terminal}

\* C28: as long as on_progress has not raised, wherever another task or the
\* callback can run, succeeded + failed is the number of file tasks whose
\* outcome is recorded (each counted once, on the side of its outcome) and
\* is at most total; while a terminal event is delivered its file is
\* already counted
C28_CountersConsistent ==
  NoCallbackRaised =>
    /\ batch.succeeded + batch.failed = Cardinality(Recorded)
    /\ batch.succeeded + batch.failed <= batch.total
    /\ batch.succeeded =
         Cardinality({i \in Recorded :
                        ~SelectionOf(i).raised /\ ~fails[i]})
    /\ batch.failed =
         Cardinality({i \in Recorded : SelectionOf(i).raised \/ fails[i]})
    /\ \A k \in 1..Len(events) :
         /\ events[k].counted = Cardinality(TerminalUpTo(k))
         /\ events[k].counted <= events[k].total
         /\ events[k].status \in Terminal => events[k].counted >= 1

\* two files in flight together: the second ended first and was counted as
\* the first outcome while its "completed" event was delivered, then the
\* first one ended as the second outcome
C28_Witness ==
  /\ NoCallbackRaised
  /\ \E k, l \in 1..Len(events) :
       /\ k < l
       /\ events[k].current = 2 /\ events[k].status = "completed"
       /\ events[k].counted = 1
       /\ events[l].current = 1 /\ events[l].status \in Terminal
       /\ events[l].counted = 2
  /\ batch.succeeded + batch.failed = 2

\* C29: once on_progress has raised on some event, process_batch still
\* returns instead of raising, no path is in both results and errors, and
\* when every file task has ended succeeded + failed equals total
C29_RobustToRaisingCallback ==
  (\E k \in 1..Len(events) : events[k].raised) =>
    /\ bpc # "raised"
    /\ DOMAIN batch.results \cap DOMAIN batch.errors = {}
    /\ (\A i \in Tasks : Ended(i)) =>
         batch.succeeded + batch.failed = batch.total

(***************************************************************************)
(* Properties of the router under mixed use (specification RouterSpec).    *)
(***************************************************************************)
\* C26: no step of select, process, process_batch or compare changes the
\* registry, the fallback order or the allow-list, and a select() call has
\* its answer, an engine or an exception, in the step of the call itself
C26_SelectLeavesRouterUnchanged ==
  [][/\ engines' = engines
     /\ fallback_order' = fallback_order
     /\ allowed_engines' = allowed_engines
     /\ (call' # call /\ call'.op = "select") =>
          call'.result = Select(engines, fallback_order, allowed_engines,
                                env_default, call'.file_path, call'.hint)]_vars

\* a router with a policy of its own: a batch has returned with a result,
\* a comparison has returned with a result, and a select() call has just
\* raised
C26_Witness ==
  /\ ~IsNone(fallback_order) /\ ~IsNone(allowed_engines)
  /\ call.op = "select" /\ call.result.raised
  /\ bpc = "returned" /\ batch.succeeded = 1
  /\ comparison.pc = "returned" /\ DOMAIN comparison.results # {}

(***************************************************************************)
(* Properties of the Marker adapter (specification MarkerSpec).            *)
(***************************************************************************)
\* after k polls the loop goes on only if none of them answered "complete"
\* or "failed" and k is below the limit; a call that returned did so on a
\* poll answering "complete", and a call that raised after polling did so
\* on a poll answering "failed", on an HTTP error, or on the last poll
MarkerPollingBounded ==
  /\ marker.polls <= DEFAULT_MAX_POLLS
  /\ marker.pc = "polling" =>
       /\ marker.polls < DEFAULT_MAX_POLLS
       /\ marker.status \notin {"complete", "failed"}
  /\ marker.pc = "returned" <=> marker.status = "complete"
  /\ marker.status = "failed" =>
       marker.pc = "raised" /\ marker.exc = "RuntimeError"
  /\ marker.exc = "TimeoutError" <=>
       /\ marker.pc = "raised"
       /\ marker.polls = DEFAULT_MAX_POLLS
       /\ marker.status \in {"processing", ""}

\* C27: the polling loop of the Marker adapter makes at most 300 polls,
\* returns on the first poll answering "complete", raises RuntimeError on
\* the first one answering "failed", raises TimeoutError when the 300th
\* poll answers neither, and a call that is polling always ends
C27_MarkerPollingEnds ==
  /\ []MarkerPollingBounded
  /\ (marker.pc = "polling") ~> (marker.pc \in {"returned", "raised"})

\* a call that polled 300 times without a terminal status and raised
\* TimeoutError
C27_Witness ==
  /\ marker.pc = "raised" /\ marker.exc = "TimeoutError"
  /\ marker.polls = DEFAULT_MAX_POLLS

(***************************************************************************)
(* Properties of the metric functions (specification MetricSpec).          *)
(***************************************************************************)
\* the edit distance of two sequences, by its defining recurrence
RECURSIVE EditDistance(_, _)
EditDistance(a, b) ==
  IF a = <<>> THEN Len(b)
  ELSE IF b = <<>> THEN Len(a)
  ELSE Min3(EditDistance(Tail(a), b) + 1,
            EditDistance(a, Tail(b)) + 1,
            EditDistance(Tail(a), Tail(b))
              + (IF Head(a) = Head(b) THEN 0 ELSE 1))

C23_IdenticalOrderIsPerfect ==
  (/\ metric.op = "compute_reading_order_score"
   /\ metric.predicted = metric.reference) =>
    metric.value = << 1, 1 >>

====
